---- MODULE Spec2Model ----
(***************************************************************************)
(* Model of the Nickelodeon programme scraper, src/nickelodean/            *)
(* parse_nick.py: the header tracker NickelodeanHeaderDepth, the two row   *)
(* decoders _parse_current_shows and _parse_former_shows, and the module   *)
(* level driver loop that walks the children of the page body.             *)
(*                                                                         *)
(* Text is a sequence of one-character strings, so that str.split, len and *)
(* indexing are computed as Python computes them.  Python's None is the    *)
(* value None below, which no text equals.  A calendar date is <<y, m, d>>.*)
(***************************************************************************)
EXTENDS Integers, Sequences, FiniteSets, TLC

VARIABLES
    _header_index,       \* NickelodeanHeaderDepth._header_index
    _header_vals,        \* NickelodeanHeaderDepth._header_vals
    doc,                 \* main_body.contents[7].children, the node sequence
    pos,                 \* index in doc of the next child the for loop takes
    table_list,          \* table_list, one DataFrame per decoded table
    pc,                  \* where the script (or the decoder under study) is
    sink,                \* the parquet file: whether written, and its records
    observed,            \* the node update_depth was last given, and the state before
    blocks,              \* the blocks of the table text a decoder is given
    row_i,               \* index in the table's rows of the next `row`
    dec,                 \* the locals of _parse_former_shows' loop
    table_df,            \* what the decoder under study returned or raised
    conv                 \* one cell text and what the column expressions made of it

header == <<_header_index, _header_vals>>

driver == <<doc, pos, table_list, sink>>

decoder == <<blocks, row_i, dec, table_df>>

vars == <<_header_index, _header_vals, doc, pos, table_list, pc, sink, observed,
          blocks, row_i, dec, table_df, conv>>

None == <<"<None>">>

(***************************************************************************)
(* Python's str and list primitives                                        *)
(***************************************************************************)

\* c in s, for a one-character c
HasChar(s, c) == \E i \in 1..Len(s) : s[i] = c

\* the index of the first c in s, 0 when there is none
RECURSIVE FirstIndex(_, _, _)
FirstIndex(s, c, i) ==
    IF i > Len(s) THEN 0
    ELSE IF s[i] = c THEN i
    ELSE FirstIndex(s, c, i + 1)

\* s.split(c), for a one-character separator c
RECURSIVE Split(_, _)
Split(s, c) ==
    LET i == FirstIndex(s, c, 1)
    IN  IF i = 0 THEN <<s>>
        ELSE <<SubSeq(s, 1, i - 1)>> \o Split(SubSeq(s, i + 1, Len(s)), c)

\* sub in s, for texts
IsSubstring(sub, s) ==
    \E i \in 0..(Len(s) - Len(sub)) : SubSeq(s, i + 1, i + Len(sub)) = sub

\* xs[-1]
Last(xs) == xs[Len(xs)]

(***************************************************************************)
(* Heading and cell texts of the model's documents                         *)
(***************************************************************************)

CurrentProgramming ==
    <<"C","u","r","r","e","n","t"," ","p","r","o","g","r","a","m","m","i","n","g">>

FormerProgramming ==
    <<"F","o","r","m","e","r"," ","p","r","o","g","r","a","m","m","i","n","g">>

FormerAquiredProgramming ==
    <<"F","o","r","m","e","r"," ","a","q","u","i","r","e","d"," ",
      "p","r","o","g","r","a","m","m","i","n","g">>

SeeAlso == <<"S","e","e"," ","a","l","s","o">>

Animated == <<"A","n","i","m","a","t","e","d">>

(***************************************************************************)
(* NickelodeanHeaderDepth                                                  *)
(***************************************************************************)

HeaderNames == {"h2", "h3", "h4", "h5"}

\* __init__: the four absent values (the index starts at 0)
InitHeaderVals == <<None, None, None, None>>

\* the properties h2, h3, h4, h5 and depth of a header value list / index
h2(vals) == vals[1]

h3(vals) == vals[2]

\* a plausible slip: h4 reads the H3 slot
h4FromH3(vals) == vals[2]

h4(vals) == vals[3]

h5(vals) == vals[4]

depth(index) == index + 2

\* the index update_depth gives a node name
NewIndex(name) ==
    CASE name = "h2" -> 0
      [] name = "h3" -> 1
      [] name = "h4" -> 2
      [] name = "h5" -> 3

\* a plausible slip: `if` instead of `while`, one level cleared at most
ClearDeeperOnce(vals, new_index, index_diff) ==
    IF index_diff > 0
    THEN [vals EXCEPT ![new_index + index_diff + 1] = None]
    ELSE vals

\* the while loop of update_depth: clears the values at new_index + index_diff,
\* ..., new_index + 1 (Python indices; the list is 1-based here)
RECURSIVE ClearDeeper(_, _, _)
ClearDeeper(vals, new_index, index_diff) ==
    IF index_diff > 0
    THEN ClearDeeper([vals EXCEPT ![new_index + index_diff + 1] = None],
                     new_index, index_diff - 1)
    ELSE vals

\* a plausible slip: every other level is cleared, the shallower ones too
update_depthClearAll(index, vals, name, text) ==
    IF name \in HeaderNames
    THEN [index |-> NewIndex(name),
          vals  |-> [k \in 1..4 |-> IF k = NewIndex(name) + 1 THEN text ELSE None]]
    ELSE [index |-> index, vals |-> vals]

\* update_depth(ns) on the state <<index, vals>>: the new <<index, vals>>
update_depth(index, vals, name, text) ==
    IF name \in HeaderNames
    THEN LET new_index == NewIndex(name)
             stored    == [vals EXCEPT ![new_index + 1] = text]
         IN  [index |-> new_index,
              vals  |-> ClearDeeper(stored, new_index, index - new_index)]
    ELSE [index |-> index, vals |-> vals]      \* warns and returns

(***************************************************************************)
(* _is_date and _count_n_dates                                             *)
(***************************************************************************)

\* v.split("[")[0].split(")")[-1]: the note suffix and the shorts prefix cut
StripNoteAndShorts(v) == Last(Split(Split(v, "[")[1], ")"))

\* the `second must be year` test of _is_date
LooksLikeYear(s) == Len(s) = 4 /\ s[1] \in {"1", "2"}

\* _is_date(v) on a text v: "True", "False", or "IndexError" where the Python
\* raises (split_by_space[1] of a comma-first part that holds no space)
_is_date(v0) ==
    LET v == StripNoteAndShorts(v0)
    IN  IF LooksLikeYear(v) THEN "True"
        ELSE IF HasChar(v, ",")
        THEN LET split_by_comma == Split(v, ",")
             IN  IF Len(split_by_comma) # 2 THEN "False"
                 ELSE IF Len(split_by_comma[2]) # 5 THEN "False"
                 ELSE LET split_by_space == Split(split_by_comma[1], " ")
                      IN  IF Len(split_by_space) < 2 THEN "IndexError"
                          ELSE IF Len(split_by_space[2]) \notin {1, 2} THEN "False"
                          ELSE "True"
        ELSE LET split_by_space == Split(v, " ")
             IN  IF Len(split_by_space) # 2 THEN "False"
                 ELSE IF LooksLikeYear(split_by_space[2]) THEN "True"
                 ELSE "False"

\* _count_n_dates(row_vals): the number of cells _is_date accepts, or
\* "IndexError" when _is_date raises on the first cell that makes it raise
RECURSIVE CountFrom(_, _, _)
CountFrom(row_vals, i, n_dates) ==
    IF i > Len(row_vals) THEN n_dates
    ELSE LET r == _is_date(row_vals[i])
         IN  IF r = "IndexError" THEN -1
             ELSE CountFrom(row_vals, i + 1, IF r = "True" THEN n_dates + 1 ELSE n_dates)

\* -1 stands for the raised IndexError
_count_n_dates(row_vals) == CountFrom(row_vals, 1, 0)

(***************************************************************************)
(* _remove_notes and _convert_date (the polars expressions, per value)     *)
(***************************************************************************)

\* _remove_notes(col, remove_shorts) on one value; a null stays null
_remove_notes(x, remove_shorts) ==
    IF x = None THEN None
    ELSE IF remove_shorts THEN Last(Split(Split(x, "[")[1], ")"))
    ELSE Split(x, "[")[1]

MonthNames == <<
    <<"J","a","n","u","a","r","y">>,
    <<"F","e","b","r","u","a","r","y">>,
    <<"M","a","r","c","h">>,
    <<"A","p","r","i","l">>,
    <<"M","a","y">>,
    <<"J","u","n","e">>,
    <<"J","u","l","y">>,
    <<"A","u","g","u","s","t">>,
    <<"S","e","p","t","e","m","b","e","r">>,
    <<"O","c","t","o","b","e","r">>,
    <<"N","o","v","e","m","b","e","r">>,
    <<"D","e","c","e","m","b","e","r">>
>>

\* the number of the month a text names, 0 when it names none
MonthNumber(s) ==
    IF \E m \in 1..12 : MonthNames[m] = s
    THEN CHOOSE m \in 1..12 : MonthNames[m] = s
    ELSE 0

DigitChars == <<"0","1","2","3","4","5","6","7","8","9">>

IsDigit(c) == \E k \in 1..10 : DigitChars[k] = c

DigitValue(c) == (CHOOSE k \in 1..10 : DigitChars[k] = c) - 1

AllDigits(s) == Len(s) > 0 /\ \A i \in 1..Len(s) : IsDigit(s[i])

\* the number a text of digits writes
RECURSIVE Number(_)
Number(s) ==
    IF Len(s) = 0 THEN 0
    ELSE 10 * Number(SubSeq(s, 1, Len(s) - 1)) + DigitValue(s[Len(s)])

IsLeap(y) == (y % 4 = 0 /\ y % 100 # 0) \/ y % 400 = 0

DaysInMonth(y, m) ==
    IF m = 2 THEN (IF IsLeap(y) THEN 29 ELSE 28)
    ELSE IF m \in {4, 6, 9, 11} THEN 30
    ELSE 31

\* a %Y field: four digits
IsYearField(s) == Len(s) = 4 /\ AllDigits(s)

\* str.strptime(pl.Date, "%B %-d, %Y", strict=False) on one text: the date, or
\* null (None) for a text the format does not match
StrptimeBdY(s) ==
    LET by_comma == Split(s, ",")
    IN  IF Len(by_comma) # 2 THEN None
        ELSE LET left  == Split(by_comma[1], " ")
                 right == by_comma[2]
             IN  IF Len(left) # 2 \/ Len(right) # 5 THEN None
                 ELSE IF /\ MonthNumber(left[1]) # 0
                         /\ Len(left[2]) \in {1, 2} /\ AllDigits(left[2])
                         /\ right[1] = " " /\ IsYearField(SubSeq(right, 2, 5))
                 THEN LET y == Number(SubSeq(right, 2, 5))
                          m == MonthNumber(left[1])
                          d == Number(left[2])
                      IN  IF d >= 1 /\ d <= DaysInMonth(y, m) THEN <<y, m, d>> ELSE None
                 ELSE None

\* str.strptime(pl.Date, "%B %Y", strict=False): the first day of the month
StrptimeBY(s) ==
    LET parts == Split(s, " ")
    IN  IF Len(parts) = 2 /\ MonthNumber(parts[1]) # 0 /\ IsYearField(parts[2])
        THEN <<Number(parts[2]), MonthNumber(parts[1]), 1>>
        ELSE None

\* str.strptime(pl.Date, "%Y", strict=False): the first day of the year
StrptimeY(s) == IF IsYearField(s) THEN <<Number(s), 1, 1>> ELSE None

\* a plausible slip: the space is looked for before the comma
_convert_dateSpaceFirst(x) ==
    IF x = None THEN None
    ELSE IF HasChar(x, " ") THEN StrptimeBY(x)
    ELSE IF HasChar(x, ",") THEN StrptimeBdY(x)
    ELSE StrptimeY(x)

\* _convert_date(col) on one value: the grammar is chosen by the comma, then by
\* the space; a null stays null
_convert_date(x) ==
    IF x = None THEN None
    ELSE IF HasChar(x, ",") THEN StrptimeBdY(x)
    ELSE IF HasChar(x, " ") THEN StrptimeBY(x)
    ELSE StrptimeY(x)

\* pl.col("NumberSeasons").cast(pl.UInt16, strict=False) on one value: the
\* number as <<"u16", n>>, or null for a text that is no UInt16
CastUInt16(x) ==
    IF x = None THEN None
    ELSE IF AllDigits(x) /\ Len(x) <= 5 /\ Number(x) <= 65535 THEN <<"u16", Number(x)>>
    ELSE None

\* no cell has gone through the column expressions yet
NotConverted ==
    [cell |-> << >>, stripped |-> << >>, parsed |-> None, is_date |-> "", n_dates |-> 0,
     how |-> "none"]

(***************************************************************************)
(* __col_map and the DataFrame a decoder builds                            *)
(***************************************************************************)

ColTitle == <<"T","i","t","l","e">>

ColPremiereDate == <<"P","r","e","m","i","e","r","e"," ","d","a","t","e">>

ColFinaleDate == <<"F","i","n","a","l","e"," ","d","a","t","e">>

ColCurrentSeason == <<"C","u","r","r","e","n","t"," ","s","e","a","s","o","n">>

ColNotes == <<"N","o","t","e","s">>

ColNoteS == <<"N","o","t","e","(","s",")">>

\* __col_map: the field a column name maps to
__col_map(col) ==
    CASE col = ColTitle         -> "Title"
      [] col = ColPremiereDate  -> "PremiereDate"
      [] col = ColFinaleDate    -> "FinaleDate"
      [] col = ColCurrentSeason -> "NumberSeasons"
      [] col = ColNotes         -> "_notes"
      [] col = ColNoteS         -> "_notes"

ColMapKeys ==
    {ColTitle, ColPremiereDate, ColFinaleDate, ColCurrentSeason, ColNotes, ColNoteS}

\* the index of the first x in xs, 0 when there is none
IndexOf(xs, x) ==
    IF \E i \in 1..Len(xs) : xs[i] = x
    THEN CHOOSE i \in 1..Len(xs) : xs[i] = x /\ \A j \in 1..(i - 1) : xs[j] # x
    ELSE 0

\* the keys of {__col_map[col]: pl.Utf8 for col in cols}, in insertion order
RECURSIVE SchemaFrom(_, _, _)
SchemaFrom(cols, i, acc) ==
    IF i > Len(cols) THEN acc
    ELSE LET k == __col_map(cols[i])
         IN  SchemaFrom(cols, i + 1, IF IndexOf(acc, k) = 0 THEN Append(acc, k) ELSE acc)

table_schema(cols) == SchemaFrom(cols, 1, << >>)

\* pl.DataFrame(data=table_vals, schema=table_schema) takes the rows only when
\* every row has one value per column of the schema
FitsSchema(table_vals, schema) ==
    \A i \in 1..Len(table_vals) : Len(table_vals[i]) = Len(schema)

\* the value of a row in the column of a field
Cell(schema, row, field) == row[IndexOf(schema, field)]

\* the result of a decoder: the error raised ("" for none) and the DataFrame
Raised(e) == [err |-> e, df |-> << >>]

Returned(df) == [err |-> "", df |-> df]

(***************************************************************************)
(* _parse_current_shows                                                    *)
(***************************************************************************)

NotesWord == <<"N","o","t","e","s">>

\* "Notes" in rows[0]: the block is one text, its cells joined by "\n"
HasNotesWord(block) == \E i \in 1..Len(block) : IsSubstring(NotesWord, block[i])

\* the loop over rows: a row whose length differs from the header's gets one None
PadRow(row_vals, cols) ==
    IF Len(row_vals) # Len(cols) THEN Append(row_vals, None) ELSE row_vals

\* a plausible slip: a Finale date column of the table is left as it was
KeepFinaleDate(x) == x

\* pl.lit(None, pl.Date).alias("FinaleDate"): whatever the column held, null
BlankFinaleDate(x) == None

\* pl.lit(None, pl.UInt16).alias("NumberSeasons"): whatever the column held, null
BlankNumberSeasons(x) == None

\* a plausible slip: the rows numbered from one
with_row_indexFromOne(i) == i

\* .with_row_index(name="SubIndex"): the index given to the i-th row of the frame
with_row_index(i) == i - 1

\* the rows left by .filter(pl.col("Title").is_not_null())
TitleNotNull(schema, table_vals) ==
    LET Keep(row) == Cell(schema, row, "Title") # None
    IN  SelectSeq(table_vals, Keep)

\* _parse_current_shows(c, nhd), c.text given as its blocks (the header block
\* first), nhd as its four values
_parse_current_shows(c, nhd) ==
    IF Len(c) = 0 THEN Raised("IndexError")             \* rows.pop(0)
    ELSE IF Len(c) = 1 THEN Raised("IndexError")        \* rows[0]
    ELSE
    LET notes_split == HasNotesWord(c[2])
        cols == IF notes_split THEN Append(c[1], ColNotes) ELSE c[1]
        rows == IF notes_split THEN SubSeq(c, 3, Len(c))
                               ELSE SubSeq(c, 2, Len(c))
    IN  IF \E i \in 1..Len(cols) : cols[i] \notin ColMapKeys THEN Raised("KeyError")
        ELSE
        LET schema == table_schema(cols)
            padded == [i \in 1..Len(rows) |-> PadRow(rows[i], cols)]
            table_vals == IF Len(cols) = 2 THEN Append(padded, <<None, None>>) ELSE padded
        IN  IF ~FitsSchema(table_vals, schema) THEN Raised("ShapeError")
            ELSE IF IndexOf(schema, "Title") = 0 \/ IndexOf(schema, "PremiereDate") = 0
            THEN Raised("ColumnNotFoundError")
            ELSE
            LET kept == TitleNotNull(schema, table_vals)
            IN  Returned([i \in 1..Len(kept) |->
                    [H2 |-> h2(nhd), H3 |-> h3(nhd), H4 |-> h4(nhd), H5 |-> h5(nhd),
                     SubIndex |-> with_row_index(i),
                     Title |-> _remove_notes(Cell(schema, kept[i], "Title"), FALSE),
                     PremiereDate |-> _convert_date(Cell(schema, kept[i], "PremiereDate")),
                     FinaleDate |->
                         BlankFinaleDate(IF IndexOf(schema, "FinaleDate") = 0 THEN None
                                         ELSE Cell(schema, kept[i], "FinaleDate")),
                     NumberSeasons |->
                         IF IndexOf(schema, "NumberSeasons") = 0 THEN None
                         ELSE CastUInt16(Cell(schema, kept[i], "NumberSeasons"))]])

(***************************************************************************)
(* _parse_former_shows                                                     *)
(***************************************************************************)

\* row_vals.insert(1, x)
Insert1(row_vals, x) == <<row_vals[1], x>> \o Tail(row_vals)

\* a plausible slip: the pairing stops after its first record
CombineLoopOnce(title_stack, date_stack, table_vals) ==
    [repeat_title_stack |-> title_stack,
     repeat_date_stack  |-> date_stack,
     table_vals         |-> Append(table_vals,
                                   <<title_stack[1], date_stack[1][1], date_stack[1][2], None>>)]

\* the `while True` loop that pairs the grouped titles and dates: the stacks it
\* leaves and the rows it appends to table_vals
RECURSIVE CombineLoop(_, _, _)
CombineLoop(title_stack, date_stack, table_vals) ==
    LET appended == Append(table_vals,
                           <<title_stack[1], date_stack[1][1], date_stack[1][2], None>>)
    IN  IF Len(title_stack) = 1 /\ Len(date_stack) = 1
        THEN [repeat_title_stack |-> title_stack,
              repeat_date_stack  |-> date_stack,
              table_vals         |-> appended]
        ELSE CombineLoop(IF Len(title_stack) > 1 THEN Tail(title_stack) ELSE title_stack,
                         IF Len(date_stack) > 1 THEN Tail(date_stack) ELSE date_stack,
                         appended)

\* the decoder's loop state before the first row
FormerStart ==
    [prev_premiere_date  |-> << >>,
     repeat_title_stack  |-> << >>,
     repeat_date_stack   |-> << >>,
     are_combining_dates |-> FALSE,
     table_vals          |-> << >>,
     did                 |-> "start"]

\* a plausible slip: a row with one date is remembered too, as if it had two
PrevPremiereAnyDated(prev_premiere_date, row, n_dates) ==
    IF n_dates \in {1, 2} THEN row[2] ELSE prev_premiere_date

\* `if n_dates == 2: prev_premiere_date = row_vals[1]`
PrevPremiere(prev_premiere_date, row, n_dates) ==
    IF n_dates = 2 THEN row[2] ELSE prev_premiere_date

\* one iteration of `for row in rows` on the loop state d; did tells the path
\* taken: "title_only", "date_push", "combine", "plain", or the error raised
FormerRow(d, row, cols) ==
    LET n_dates == _count_n_dates(row)
    IN  IF n_dates = -1 THEN [d EXCEPT !.did = "IndexError"]
        ELSE IF n_dates = 0
        THEN [d EXCEPT !.repeat_title_stack = row,
                       !.are_combining_dates = TRUE,
                       !.did = "title_only"]
        ELSE
        LET prev == PrevPremiere(d.prev_premiere_date, row, n_dates)
            row_vals == IF n_dates = 1 THEN Insert1(row, d.prev_premiere_date) ELSE row
        IN  IF _is_date(row_vals[1]) = "True"
            THEN [d EXCEPT !.prev_premiere_date = prev,
                           !.repeat_date_stack = Append(@, row_vals),
                           !.did = "date_push"]
            ELSE IF d.are_combining_dates
            THEN IF Len(d.repeat_date_stack) = 0
                 THEN [d EXCEPT !.prev_premiere_date = prev,
                                !.are_combining_dates = FALSE,
                                !.did = "IndexError"]
                 ELSE LET c == CombineLoop(d.repeat_title_stack, d.repeat_date_stack,
                                           d.table_vals)
                      IN  [prev_premiere_date  |-> prev,
                           repeat_title_stack  |-> c.repeat_title_stack,
                           repeat_date_stack   |-> c.repeat_date_stack,
                           are_combining_dates |-> FALSE,
                           table_vals          |-> Append(c.table_vals, PadRow(row_vals, cols)),
                           did                 |-> "combine"]
            ELSE [d EXCEPT !.prev_premiere_date = prev,
                           !.table_vals = Append(@, PadRow(row_vals, cols)),
                           !.did = "plain"]

FormerErrors == {"IndexError", "KeyError", "ShapeError", "ColumnNotFoundError"}

\* the loop state after the rows i.. of rows, stopping at the first error
RECURSIVE FormerLoop(_, _, _, _)
FormerLoop(d, rows, i, cols) ==
    IF i > Len(rows) \/ d.did \in FormerErrors THEN d
    ELSE FormerLoop(FormerRow(d, rows[i], cols), rows, i + 1, cols)

\* what follows the loop: the blank row for two columns, the DataFrame, the
\* cleanup and the header columns
FormerFrame(table_vals0, cols, nhd) ==
    LET schema == table_schema(cols)
        table_vals == IF Len(cols) = 2 THEN Append(table_vals0, <<None, None>>)
                                       ELSE table_vals0
    IN  IF ~FitsSchema(table_vals, schema) THEN Raised("ShapeError")
        ELSE IF \/ IndexOf(schema, "Title") = 0
                \/ IndexOf(schema, "PremiereDate") = 0
                \/ IndexOf(schema, "FinaleDate") = 0
        THEN Raised("ColumnNotFoundError")
        ELSE
        LET kept == TitleNotNull(schema, table_vals)
        IN  Returned([i \in 1..Len(kept) |->
                [H2 |-> h2(nhd), H3 |-> h3(nhd), H4 |-> h4(nhd), H5 |-> h5(nhd),
                 SubIndex |-> with_row_index(i),
                 Title |-> _remove_notes(Cell(schema, kept[i], "Title"), FALSE),
                 PremiereDate |->
                     _convert_date(_remove_notes(Cell(schema, kept[i], "PremiereDate"), TRUE)),
                 FinaleDate |->
                     _convert_date(_remove_notes(Cell(schema, kept[i], "FinaleDate"), TRUE)),
                 NumberSeasons |->
                     BlankNumberSeasons(IF IndexOf(schema, "NumberSeasons") = 0 THEN None
                                        ELSE Cell(schema, kept[i], "NumberSeasons"))]])

\* _parse_former_shows(c, nhd), c.text given as its blocks (the header block
\* first), nhd as its four values
_parse_former_shows(c, nhd) ==
    IF Len(c) = 0 THEN Raised("IndexError")             \* rows.pop(0)
    ELSE
    LET cols == c[1]
        rows == Tail(c)
    IN  IF \E i \in 1..Len(cols) : cols[i] \notin ColMapKeys THEN Raised("KeyError")
        ELSE LET d == FormerLoop(FormerStart, rows, 1, cols)
             IN  IF d.did \in FormerErrors THEN Raised(d.did)
                 ELSE FormerFrame(d.table_vals, cols, nhd)

(***************************************************************************)
(* parse_table                                                             *)
(***************************************************************************)

\* parse_table(c, nhd)
parse_table(c, nhd) ==
    IF h2(nhd) = CurrentProgramming THEN _parse_current_shows(c, nhd)
    ELSE IF h2(nhd) = FormerProgramming THEN _parse_former_shows(c, nhd)
    ELSE Raised("ValueError")

(***************************************************************************)
(* The cell texts and tables of the model's documents                      *)
(***************************************************************************)

ShowA == <<"S","h","o","w","A">>

ShowB == <<"S","h","o","w","B">>

ShowC == <<"S","h","o","w","C">>

ShowDNote == <<"S","h","o","w","D","[","1","]">>

NoteOnly == <<"[","1","]">>

Y1985 == <<"1","9","8","5">>

Y1990 == <<"1","9","9","0">>

Jan1_1990 == <<"J","a","n","u","a","r","y"," ","1",","," ","1","9","9","0">>

Dec31_1990 == <<"D","e","c","e","m","b","e","r"," ","3","1",","," ","1","9","9","0">>

Dec1_1999 == <<"D","e","c","e","m","b","e","r"," ","1",","," ","1","9","9","9">>

June1999 == <<"J","u","n","e"," ","1","9","9","9">>

June5_1999 == <<"J","u","n","e"," ","5",","," ","1","9","9","9">>

Three == <<"3">>

Remark == <<"r","e","r","u","n">>

\* a table of the current dialect: Title, Premiere date, Current season, Notes;
\* its second row has no notes cell
TblSeasons ==
    << <<ColTitle, ColPremiereDate, ColCurrentSeason, ColNotes>>,
       <<ShowA, June5_1999, Three, Remark>>,
       <<ShowDNote, June1999, Remark>> >>

\* a table of the former dialect with a grouped-date cluster, closed by a row
\* that lacks its premiere date
TblGrouped ==
    << <<ColTitle, ColPremiereDate, ColFinaleDate, ColNoteS>>,
       <<ShowA, Y1985, Y1990>>,
       <<ShowA, ShowB>>,
       <<Jan1_1990, Dec31_1990>>,
       <<ShowC, Dec1_1999>> >>

DocTables == {TblSeasons, TblGrouped}

(***************************************************************************)
(* The driver: the loop over main_body.contents[7].children                *)
(***************************************************************************)

\* ./data/nick.parquet before write_parquet
NotWritten == [written |-> FALSE, df |-> << >>]

\* before update_depth was ever called
NothingObserved ==
    [node |-> [name |-> "None", body |-> None], before |-> InitHeaderVals, index_before |-> 0]

\* before the decoder under study has ended
Pending == [err |-> "pending", df |-> << >>]

MaxDocLen == 4

Node(name, body) == [name |-> name, body |-> body]

HeadingNodes ==
    {Node("h2", CurrentProgramming), Node("h2", FormerProgramming), Node("h2", SeeAlso),
     Node("h3", FormerAquiredProgramming), Node("h3", Animated),
     Node("h4", Animated)}

\* a NavigableString between the tags has no name; h6 is a tag the loop has no
\* branch for, as a paragraph is
DocNodes ==
    HeadingNodes \cup {Node("table", t) : t \in DocTables}
                 \cup {Node("None", None), Node("h6", Animated)}

Docs == UNION {[1..n -> DocNodes] : n \in 0..MaxDocLen}

\* a plausible slip: a third heading is let through to parse_table
RecognizedH2Wide == {CurrentProgramming, FormerProgramming, SeeAlso}

\* `nhd.h2 not in ["Current programming", "Former programming"]`
RecognizedH2 == {CurrentProgramming, FormerProgramming}

\* a plausible slip: the check is left out and the loop goes on
AfterNodeNoBreak(vals) == "loop"

\* `if nhd.h3 == "Former aquired programming": break`, else the next child
AfterNode(vals) == IF h3(vals) = FormerAquiredProgramming THEN "concat" ELSE "loop"

Init ==
    /\ _header_index = 0
    /\ _header_vals = InitHeaderVals
    /\ doc \in Docs
    /\ pos = 1
    /\ table_list = << >>
    /\ pc = "loop"
    /\ sink = NotWritten
    /\ observed = NothingObserved
    /\ blocks = << >>
    /\ row_i = 1
    /\ dec = FormerStart
    /\ table_df = Pending
    /\ conv = NotConverted

AtNode == pc = "loop" /\ pos <= Len(doc)

\* `if c.name is None: continue`
SkipBlank ==
    /\ AtNode
    /\ doc[pos].name = "None"
    /\ pos' = pos + 1
    /\ UNCHANGED <<conv, header, doc, table_list, pc, sink, observed, decoder>>

\* `if c.name in ["h2", "h3", "h4", "h5"]: nhd.update_depth(ns=c)`
Heading ==
    /\ AtNode
    /\ doc[pos].name \in HeaderNames
    /\ LET u == update_depth(_header_index, _header_vals, doc[pos].name, doc[pos].body)
       IN  /\ _header_index' = u.index
           /\ _header_vals' = u.vals
           /\ pc' = AfterNode(u.vals)
    /\ pos' = pos + 1
    /\ UNCHANGED <<conv, doc, table_list, sink, observed, decoder>>

\* a table under an H2 that names no dialect: `continue`
TableSkipped ==
    /\ AtNode
    /\ doc[pos].name = "table"
    /\ h2(_header_vals) \notin RecognizedH2
    /\ pos' = pos + 1
    /\ UNCHANGED <<conv, header, doc, table_list, pc, sink, observed, decoder>>

\* a plausible slip: the new DataFrame is put first
Prepended(list, df) == <<df>> \o list

\* table_list.append(df)
Appended(list, df) == Append(list, df)

\* a table that parse_table decodes: its DataFrame is appended
TableParsed ==
    /\ AtNode
    /\ doc[pos].name = "table"
    /\ h2(_header_vals) \in RecognizedH2
    /\ LET r == parse_table(doc[pos].body, _header_vals)
       IN  /\ r.err = ""
           /\ table_list' = Appended(table_list, r.df)
    /\ pc' = AfterNode(_header_vals)
    /\ pos' = pos + 1
    /\ UNCHANGED <<conv, header, doc, sink, observed, decoder>>

\* a plausible slip: the failure is caught and what was decoded is written
RaisedToConcat == "concat"

\* nothing catches what parse_table raises: the script ends there
RaisedTo == "error"

\* a table on which parse_table raises: the exception ends the script
TableRaised ==
    /\ AtNode
    /\ doc[pos].name = "table"
    /\ h2(_header_vals) \in RecognizedH2
    /\ parse_table(doc[pos].body, _header_vals).err # ""
    /\ pc' = RaisedTo
    /\ UNCHANGED <<conv, header, driver, observed, decoder>>

\* any other tag: neither branch is taken
OtherNode ==
    /\ AtNode
    /\ doc[pos].name \notin HeaderNames \cup {"table", "None"}
    /\ pc' = AfterNode(_header_vals)
    /\ pos' = pos + 1
    /\ UNCHANGED <<conv, header, doc, table_list, sink, observed, decoder>>

\* the children are exhausted
LoopEnd ==
    /\ pc = "loop"
    /\ pos > Len(doc)
    /\ pc' = "concat"
    /\ UNCHANGED <<conv, header, driver, observed, decoder>>

\* the concatenation of a list of DataFrames
RECURSIVE Concat(_)
Concat(dfs) == IF Len(dfs) = 0 THEN << >> ELSE dfs[1] \o Concat(Tail(dfs))

\* pl.concat(table_list) and write_parquet
ConcatWrite ==
    /\ pc = "concat"
    /\ Len(table_list) > 0
    /\ sink' = [written |-> TRUE, df |-> Concat(table_list)]
    /\ pc' = "done"
    /\ UNCHANGED <<conv, header, doc, pos, table_list, observed, decoder>>

\* pl.concat of an empty list raises
ConcatRaised ==
    /\ pc = "concat"
    /\ Len(table_list) = 0
    /\ pc' = "error"
    /\ UNCHANGED <<conv, header, driver, observed, decoder>>

Next ==
    \/ SkipBlank
    \/ Heading
    \/ TableSkipped
    \/ TableParsed
    \/ TableRaised
    \/ OtherNode
    \/ LoopEnd
    \/ ConcatWrite
    \/ ConcatRaised

Spec == Init /\ [][Next]_vars

(***************************************************************************)
(* What a document says, read off the node sequence itself                 *)
(***************************************************************************)

\* the value of a field in the records of a DataFrame, in order
Column(df, field) == [i \in 1..Len(df) |-> df[i][field]]

LevelNames == <<"h2", "h3", "h4", "h5">>

DialectNames == {CurrentProgramming, FormerProgramming}

\* the heading in force at level L (0..3) where node j stands: the text of the
\* latest heading of that level before j, unless a shallower heading follows it
HeadingAt(d, j, L) ==
    LET same == {k \in 1..(j - 1) : d[k].name = LevelNames[L + 1]}
    IN  IF same = {} THEN None
        ELSE LET k == CHOOSE x \in same : \A y \in same : y <= x
             IN  IF \E i \in (k + 1)..(j - 1), M \in 0..(L - 1) : d[i].name = LevelNames[M + 1]
                 THEN None
                 ELSE d[k].body

HeadingsAt(d, j) == <<HeadingAt(d, j, 0), HeadingAt(d, j, 1), HeadingAt(d, j, 2), HeadingAt(d, j, 3)>>

\* the first H3 heading that reads "Former aquired programming", past the end
\* when there is none
SentinelAt(d) ==
    LET hits == {i \in 1..Len(d) : d[i] = Node("h3", FormerAquiredProgramming)}
    IN  IF hits = {} THEN Len(d) + 1
        ELSE CHOOSE i \in hits : \A y \in hits : i <= y

\* node j is a table under one of the two dialect headings, not after the sentinel
IsDialectTable(d, j) ==
    /\ d[j].name = "table"
    /\ j < SentinelAt(d)
    /\ HeadingAt(d, j, 0) \in DialectNames

\* what the decoder of its dialect makes of table j
DecodeAt(d, j) ==
    IF HeadingAt(d, j, 0) = CurrentProgramming
    THEN _parse_current_shows(d[j].body, HeadingsAt(d, j))
    ELSE _parse_former_shows(d[j].body, HeadingsAt(d, j))

\* the dialect tables among the nodes j.., up to node n, in document order
RECURSIVE DialectTables(_, _, _)
DialectTables(d, j, n) ==
    IF j > n THEN << >>
    ELSE (IF IsDialectTable(d, j) THEN <<j>> ELSE << >>) \o DialectTables(d, j + 1, n)

\* the first dialect table whose decoding raises, 0 when none does
FirstFailing(d) ==
    LET bad == {j \in 1..Len(d) : IsDialectTable(d, j) /\ DecodeAt(d, j).err # ""}
    IN  IF bad = {} THEN 0 ELSE CHOOSE j \in bad : \A y \in bad : j <= y

\* the record sets of the tables js, one after the other
RECURSIVE RecordsOf(_, _)
RecordsOf(d, js) ==
    IF Len(js) = 0 THEN << >> ELSE DecodeAt(d, js[1]).df \o RecordsOf(d, Tail(js))

RECURSIVE SumLen(_, _)
SumLen(d, js) ==
    IF Len(js) = 0 THEN 0 ELSE Len(DecodeAt(d, js[1]).df) + SumLen(d, Tail(js))

\* the data rows of a current programming table text: the blocks after the
\* header block, less a "Notes" block split off the header
DataRows(c) == IF HasNotesWord(c[2]) THEN Len(c) - 2 ELSE Len(c) - 1

\* a run of the whole script
DriverRun == Len(doc) > 0

SkipsTable ==
    /\ pc = "loop" /\ pos <= Len(doc)
    /\ doc[pos].name = "table"
    /\ h2(_header_vals) \notin DialectNames

\* C6: a table met while the current H2 is neither dialect name (or absent) is
\* skipped without an error and without a change of the accumulator, so every
\* accumulated record has a dialect name as H2 and comes from the decoder that
\* its H2 selects.
C6_UnrecognizedTableSkipped ==
    /\ [][SkipsTable => (table_list' = table_list /\ pc' = "loop" /\ pos' = pos + 1)]_vars
    /\ [](DriverRun =>
            LET js == DialectTables(doc, 1, pos - 1)
            IN  /\ Len(table_list) = Len(js)
                /\ \A k \in 1..Len(table_list) :
                     /\ \A i \in 1..Len(table_list[k]) : table_list[k][i].H2 \in DialectNames
                     /\ table_list[k] = DecodeAt(doc, js[k]).df)

\* a table under "See also" was passed over and a later table was decoded
C6_Witness ==
    /\ pc = "done"
    /\ doc = <<Node("h2", SeeAlso), Node("table", TblSeasons),
               Node("h2", CurrentProgramming), Node("table", TblSeasons)>>
    /\ Len(sink.df) = 2

\* C7: once the sentinel heading value is held at H3 the driver stops: no
\* further node is taken, the header state is not updated again and no table
\* adds a record.
C7_StopsAtSentinel ==
    [][h3(_header_vals) = FormerAquiredProgramming =>
          (pos' = pos /\ _header_vals' = _header_vals /\ _header_index' = _header_index
           /\ table_list' = table_list /\ pc' # "loop")]_vars

\* the script has ended with a dialect table left unread after the sentinel
C7_Witness ==
    /\ pc = "done"
    /\ h3(_header_vals) = FormerAquiredProgramming
    /\ pos <= Len(doc) /\ doc[pos].name = "table"
    /\ h2(_header_vals) \in DialectNames
    /\ Len(table_list) = 1

\* C8: every record of a table carries the H2..H5 values in force where the
\* table stands, whatever headings were observed after it.
C8_RecordsKeepTheirHeadings ==
    DriverRun =>
        LET js  == DialectTables(doc, 1, pos - 1)
            all == Concat(table_list)
        IN  /\ \A k \in 1..Len(table_list) : \A i \in 1..Len(table_list[k]) :
                 LET r == table_list[k][i]
                 IN  k <= Len(js) /\ <<r.H2, r.H3, r.H4, r.H5>> = HeadingsAt(doc, js[k])
            /\ sink.written => sink.df = all

\* records stamped with an H4 that the header state has since dropped
C8_Witness ==
    /\ DriverRun
    /\ Len(table_list) = 1 /\ Len(table_list[1]) > 0
    /\ table_list[1][1].H4 = Animated
    /\ h4(_header_vals) = None
    /\ h2(_header_vals) # table_list[1][1].H2

\* C9: when the decoding of a table fails the run ends there: the records of
\* the tables decoded before it are not written and no later node is taken.
C9_FailureAbortsWithoutOutput ==
    /\ (DriverRun /\ FirstFailing(doc) # 0) =>
           (pos <= FirstFailing(doc) /\ ~sink.written)
    /\ (DriverRun /\ pc = "error") => ~sink.written

\* the second table failed after the first was decoded
C9_Witness ==
    /\ pc = "error"
    /\ Len(table_list) = 1
    /\ pos = FirstFailing(doc)
    /\ ~sink.written

(***************************************************************************)
(* The header tracker on its own: update_depth given any node              *)
(***************************************************************************)

ObserveTexts == {CurrentProgramming, SeeAlso, Animated}

InitHeader ==
    /\ _header_index = 0
    /\ _header_vals = InitHeaderVals
    /\ doc = << >>
    /\ pos = 1
    /\ table_list = << >>
    /\ pc = "header"
    /\ sink = NotWritten
    /\ observed = NothingObserved
    /\ blocks = << >>
    /\ row_i = 1
    /\ dec = FormerStart
    /\ table_df = Pending
    /\ conv = NotConverted

\* update_depth(ns) for a node named name with text text; observed keeps the
\* node and the values held before the call
Observe(name, text) ==
    /\ pc = "header"
    /\ LET u == update_depth(_header_index, _header_vals, name, text)
       IN  /\ _header_index' = u.index
           /\ _header_vals' = u.vals
    /\ observed' = [node |-> Node(name, text),
                    before |-> _header_vals,
                    index_before |-> _header_index]
    /\ UNCHANGED <<conv, driver, pc, decoder>>

\* a heading h2..h5
ObserveHeading == \E name \in HeaderNames, text \in ObserveTexts : Observe(name, text)

\* a node that is no h2..h5: the warning branch
ObserveOther == \E name \in {"h6", "p"}, text \in ObserveTexts : Observe(name, text)

NextHeader == ObserveHeading \/ ObserveOther

SpecHeader == InitHeader /\ [][NextHeader]_vars

\* the level index 0..3 of a heading name
Level(name) == CHOOSE k \in 0..3 : <<"h2", "h3", "h4", "h5">>[k + 1] = name

\* C1: right after a heading at level L with text t is observed, the stored
\* value at L is t and every stored value at a level deeper than L is absent.
C1_DeeperLevelsAbsent ==
    (pc = "header" /\ observed.node.name \in HeaderNames) =>
        LET L == Level(observed.node.name)
        IN  /\ _header_vals[L + 1] = observed.node.body
            /\ \A k \in (L + 2)..4 : _header_vals[k] = None

\* an H2 observed while H3, H4 and H5 all held a value: only H2 is left
C1_Witness ==
    /\ pc = "header"
    /\ observed.node = Node("h2", SeeAlso)
    /\ \A k \in 2..4 : observed.before[k] # None
    /\ _header_vals = <<SeeAlso, None, None, None>>

(***************************************************************************)
(* The decoders on their own: one table text, decoded under one dialect    *)
(***************************************************************************)

MaxRows == 4

HdrFormer == <<ColTitle, ColPremiereDate, ColFinaleDate, ColNoteS>>

HdrSeasons == <<ColTitle, ColPremiereDate, ColCurrentSeason, ColNotes>>

HdrTwo == <<ColTitle, ColPremiereDate>>

\* a former programming header that has a seasons column where the notes are
HdrFormerSeasons == <<ColTitle, ColPremiereDate, ColFinaleDate, ColCurrentSeason>>

\* row blocks of former programming tables
FormerRowBlocks ==
    {<<ShowA>>, <<ShowB>>, <<ShowA, ShowB>>,
     <<Jan1_1990, Dec31_1990>>,
     <<ShowC, Y1985, Y1990>>,
     <<ShowC, Dec1_1999>>,
     <<NoteOnly, Y1985, June1999, Remark>>}

\* row blocks of current programming tables
CurrentRowBlocks ==
    {<<ShowA, June5_1999, Three, Remark>>,
     <<ShowDNote, June1999, Remark>>,
     <<NoteOnly, Y1985>>,
     <<ColNotes>>}

SeqsUpTo(S, n) == UNION {[1..k -> S] : k \in 0..n}

\* the table texts given to _parse_former_shows: a header block and rows, or
\* nothing at all
FormerTexts ==
    {<< >>} \cup {<<hdr>> \o rows : hdr \in {HdrFormer, HdrTwo, HdrFormerSeasons},
                                   rows \in SeqsUpTo(FormerRowBlocks, MaxRows)}

\* the table texts given to _parse_current_shows
CurrentTexts ==
    {<< >>} \cup {<<hdr>> \o rows : hdr \in {HdrSeasons, HdrTwo, HdrFormer},
                                   rows \in SeqsUpTo(CurrentRowBlocks, MaxRows)}

InitDecode ==
    /\ pc \in {"current", "former"}
    /\ blocks \in (IF pc = "current" THEN CurrentTexts ELSE FormerTexts)
    /\ _header_index = 1
    /\ _header_vals = <<(IF pc = "current" THEN CurrentProgramming ELSE FormerProgramming),
                        Animated, None, None>>
    /\ row_i = 1
    /\ dec = FormerStart
    /\ table_df = Pending
    /\ conv = NotConverted
    /\ doc = << >>
    /\ pos = 1
    /\ table_list = << >>
    /\ sink = NotWritten
    /\ observed = NothingObserved

\* _parse_current_shows returns
CurrentReturned ==
    /\ pc = "current"
    /\ LET r == _parse_current_shows(blocks, _header_vals)
       IN  r.err = "" /\ table_df' = r
    /\ pc' = "returned"
    /\ UNCHANGED <<conv, header, driver, observed, blocks, row_i, dec>>

\* _parse_current_shows raises
CurrentRaised ==
    /\ pc = "current"
    /\ LET r == _parse_current_shows(blocks, _header_vals)
       IN  r.err # "" /\ table_df' = r
    /\ pc' = "raised"
    /\ UNCHANGED <<conv, header, driver, observed, blocks, row_i, dec>>

\* _parse_former_shows up to its loop: rows.pop(0) and the schema
FormerBegin ==
    /\ pc = "former"
    /\ IF Len(blocks) = 0
       THEN pc' = "raised" /\ table_df' = Raised("IndexError")
       ELSE IF \E i \in 1..Len(blocks[1]) : blocks[1][i] \notin ColMapKeys
       THEN pc' = "raised" /\ table_df' = Raised("KeyError")
       ELSE pc' = "rows" /\ table_df' = table_df
    /\ UNCHANGED <<conv, header, driver, observed, blocks, row_i, dec>>

\* the header block and the rows of the table under _parse_former_shows
cols == blocks[1]

rows == Tail(blocks)

\* one iteration of the loop of _parse_former_shows that takes the path `did`
FormerIteration(did) ==
    /\ pc = "rows"
    /\ row_i <= Len(rows)
    /\ LET d == FormerRow(dec, rows[row_i], cols)
       IN  /\ d.did = did
           /\ dec' = d
           /\ IF did \in FormerErrors
              THEN pc' = "raised" /\ table_df' = Raised(did) /\ row_i' = row_i
              ELSE pc' = pc /\ table_df' = table_df /\ row_i' = row_i + 1
    /\ UNCHANGED <<conv, header, driver, observed, blocks>>

\* a row of titles only: it becomes the title stack
FormerTitleOnly == FormerIteration("title_only")

\* a row that starts with a date: pushed on the date stack
FormerDatePush == FormerIteration("date_push")

\* a dated row that ends a group: the group's rows, then the row
FormerCombine == FormerIteration("combine")

\* a dated row outside a group
FormerPlain == FormerIteration("plain")

\* _is_date or the pairing loop raises
FormerRowRaised == FormerIteration("IndexError")

\* the rows are exhausted: the DataFrame is built and returned, or that raises
FormerEnd ==
    /\ pc = "rows"
    /\ row_i > Len(rows)
    /\ LET r == FormerFrame(dec.table_vals, cols, _header_vals)
       IN  /\ table_df' = r
           /\ pc' = IF r.err = "" THEN "returned" ELSE "raised"
    /\ UNCHANGED <<conv, header, driver, observed, blocks, row_i, dec>>

NextDecode ==
    \/ CurrentReturned
    \/ CurrentRaised
    \/ FormerBegin
    \/ FormerTitleOnly
    \/ FormerDatePush
    \/ FormerCombine
    \/ FormerPlain
    \/ FormerRowRaised
    \/ FormerEnd

SpecDecode == InitDecode /\ [][NextDecode]_vars

\* the decoder under study was _parse_former_shows
FormerRun == h2(_header_vals) = FormerProgramming /\ Len(doc) = 0 /\ pc # "header"

\* the decoder under study has returned table_df
FormerReturned == FormerRun /\ pc = "returned"

\* C2: title-only row blocks accumulate on the pending title stack and a
\* following date-pair block makes the decoder emit one record per pending
\* title: the rows ["ShowA"], ["ShowB"], ["January 1, 1990", "December 31,
\* 1990"] yield exactly 2 records, ShowA and ShowB, both 1990-01-01 to 1990-12-31.
C2_TitlesAccumulateAndFlushOnDatePair ==
    (/\ FormerRun /\ pc \in {"returned", "raised"}
     /\ blocks = <<HdrFormer, <<ShowA>>, <<ShowB>>, <<Jan1_1990, Dec31_1990>> >>) =>
        /\ table_df.err = ""
        /\ Column(table_df.df, "Title") = <<ShowA, ShowB>>
        /\ Column(table_df.df, "PremiereDate") = << <<1990, 1, 1>>, <<1990, 1, 1>> >>
        /\ Column(table_df.df, "FinaleDate") = << <<1990, 12, 31>>, <<1990, 12, 31>> >>

\* the row the loop has just taken
TakenRow == rows[row_i - 1]

\* the second cell of the latest row before row j that holds two date tokens,
\* the empty text when there is none
RECURSIVE LastKnownPremiere(_, _)
LastKnownPremiere(rs, j) ==
    IF j <= 1 THEN << >>
    ELSE IF _count_n_dates(rs[j - 1]) = 2 THEN rs[j - 1][2]
    ELSE LastKnownPremiere(rs, j - 1)

\* a row that starts with a title and holds exactly one date token
OneDateTitleRow(row) == _count_n_dates(row) = 1 /\ _is_date(row[1]) = "False"

\* a table of one ordinary row followed by rows with one date token only
OneDateRun(bs) ==
    /\ Len(bs) >= 3
    /\ bs[1] = HdrFormer
    /\ _count_n_dates(bs[2]) = 2 /\ _is_date(bs[2][1]) = "False"
    /\ \A k \in 3..Len(bs) : OneDateTitleRow(bs[k])

\* C3: a title-first row block with exactly 1 date token is emitted with the
\* last-known PremiereDate inserted as its second cell and its own date as
\* FinaleDate, also when several such rows follow one another: after a row
\* with PremiereDate "1985" every such row's record has PremiereDate 1985-01-01.
C3_OneDateRowTakesLastKnownPremiere ==
    /\ (/\ FormerRun /\ pc = "rows" /\ row_i > 1
        /\ dec.did \in {"plain", "combine"}
        /\ OneDateTitleRow(TakenRow)) =>
            LET out == Last(dec.table_vals)
            IN  /\ out[1] = TakenRow[1]
                /\ out[2] = LastKnownPremiere(rows, row_i - 1)
                /\ out[3] = TakenRow[2]
    /\ (FormerReturned /\ OneDateRun(blocks)) =>
            /\ Len(table_df.df) = Len(rows)
            /\ \A k \in 2..Len(rows) :
                 /\ table_df.df[k].PremiereDate =
                        _convert_date(_remove_notes(rows[1][2], TRUE))
                 /\ table_df.df[k].FinaleDate =
                        _convert_date(_remove_notes(rows[k][2], TRUE))

\* the row ["ShowC", "December 1, 1999"], twice, after a row with premiere "1985"
C3_Witness ==
    /\ FormerReturned
    /\ blocks = <<HdrFormer, <<ShowC, Y1985, Y1990>>, <<ShowC, Dec1_1999>>, <<ShowC, Dec1_1999>> >>
    /\ Column(table_df.df, "PremiereDate") = << <<1985, 1, 1>>, <<1985, 1, 1>>, <<1985, 1, 1>> >>
    /\ Column(table_df.df, "FinaleDate") = << <<1990, 1, 1>>, <<1999, 12, 1>>, <<1999, 12, 1>> >>

\* C4: if the table ends while a grouped-date cluster is still pending, the
\* decoding fails with an error: it never returns with the cluster unflushed.
C4_PendingClusterIsFatal ==
    (FormerRun /\ pc = "returned") => ~dec.are_combining_dates

\* C10: in every record either decoder emits, Title is neither absent nor the
\* empty text.
C10_TitleNeverAbsentNorEmpty ==
    (Len(doc) = 0 /\ pc = "returned") =>
        \A i \in 1..Len(table_df.df) :
            table_df.df[i].Title # None /\ table_df.df[i].Title # << >>

(***************************************************************************)
(* The date column expressions on their own: one cell, one dialect         *)
(***************************************************************************)

Y1999 == <<"1","9","9","9">>

NotADate == <<"n","o","t","-","a","-","d","a","t","e">>

\* the texts a date cell is put together from
DateMonthWords == {MonthNames[2], MonthNames[6], MonthNames[12]}

DateDayWords == {<<"1">>, <<"5">>, <<"3","0">>, <<"3","1">>}

DateYearWords == {Y1985, Y1999}

DayTexts ==
    {m \o <<" ">> \o d \o <<",", " ">> \o y :
        m \in DateMonthWords, d \in DateDayWords, y \in DateYearWords}

MonthTexts == {m \o <<" ">> \o y : m \in DateMonthWords, y \in DateYearWords}

\* a text with one comma, five characters after it and no space before it
AbcDefg == <<"A","b","c",","," ","D","e","f","g">>

\* texts none of the three formats takes
OtherTexts ==
    {NotADate,
     MonthNames[6],
     <<"J","u","n","e"," ","5"," ","1","9","9","9">>,
     <<"J","u","n","e",","," ","1","9","9","9">>,
     <<"J","u","n","k"," ","1","9","9","9">>,
     AbcDefg}

DateTexts == DayTexts \cup MonthTexts \cup DateYearWords \cup OtherTexts

ShortsPrefixes == {<< >>, <<"(","s","h","o","r","t","s",")">>,
                   <<"(","s","h","o","r","t","s",")"," ">>}

NoteSuffixes == {<< >>, <<"[","2","]">>}

\* the cells of a date column
DateCells == {p \o t \o n : p \in ShortsPrefixes, t \in DateTexts, n \in NoteSuffixes}

InitConvert ==
    /\ pc = "cell"
    /\ conv \in {[NotConverted EXCEPT !.cell = x] : x \in DateCells}
    /\ _header_index = 0
    /\ _header_vals = InitHeaderVals
    /\ doc = << >>
    /\ pos = 1
    /\ table_list = << >>
    /\ sink = NotWritten
    /\ observed = NothingObserved
    /\ blocks = << >>
    /\ row_i = 1
    /\ dec = FormerStart
    /\ table_df = Pending

\* _parse_current_shows on a PremiereDate cell: _convert_date alone
ConvertCurrentDate ==
    /\ pc = "cell"
    /\ conv' = [conv EXCEPT !.stripped = conv.cell,
                            !.parsed = _convert_date(conv.cell),
                            !.how = "current"]
    /\ pc' = "converted"
    /\ UNCHANGED <<header, driver, observed, decoder>>

\* _parse_former_shows on a PremiereDate or FinaleDate cell: _remove_notes
\* with remove_shorts, then _convert_date
ConvertFormerDate ==
    /\ pc = "cell"
    /\ LET stripped == _remove_notes(conv.cell, TRUE)
       IN  conv' = [conv EXCEPT !.stripped = stripped,
                                !.parsed = _convert_date(stripped),
                                !.how = "former"]
    /\ pc' = "converted"
    /\ UNCHANGED <<header, driver, observed, decoder>>

\* _is_date on the cell, and _count_n_dates on the row that holds just the cell
TestIsDate ==
    /\ pc = "cell"
    /\ conv' = [conv EXCEPT !.stripped = StripNoteAndShorts(conv.cell),
                            !.is_date = _is_date(conv.cell),
                            !.n_dates = _count_n_dates(<<conv.cell>>),
                            !.how = "is_date"]
    /\ pc' = "tested"
    /\ UNCHANGED <<header, driver, observed, decoder>>

NextConvert == ConvertCurrentDate \/ ConvertFormerDate \/ TestIsDate

SpecConvert == InitConvert /\ [][NextConvert]_vars

\* the decimal text of a number
RECURSIVE DigitsOf(_)
DigitsOf(n) ==
    IF n < 10 THEN <<DigitChars[n + 1]>>
    ELSE Append(DigitsOf(n \div 10), DigitChars[(n % 10) + 1])

\* a date written "Month Day, Year", "Month Year" and "Year"
DayText(dt) == MonthNames[dt[2]] \o <<" ">> \o DigitsOf(dt[3]) \o <<",", " ">> \o DigitsOf(dt[1])

MonthText(dt) == MonthNames[dt[2]] \o <<" ">> \o DigitsOf(dt[1])

YearText(dt) == DigitsOf(dt[1])

\* the calendar dates the cells can write
CalendarDates ==
    {dt \in {1985, 1999} \X {2, 6, 12} \X {1, 5, 30, 31} : dt[3] <= DaysInMonth(dt[1], dt[2])}

\* the text _convert_date was given, and what it made of it
Converted == pc = "converted"

\* C11: the date grammar is chosen by the content alone: a text with a comma
\* is read as "Month Day, Year" only, else a text with a space as "Month Year"
\* only, else as a bare year; a text the chosen grammar cannot read (such as
\* "not-a-date") gives an absent date and no error.
C11_GrammarSelectedByContent ==
    Converted =>
        LET x == conv.stripped
            r == conv.parsed
        IN  /\ r = None \/ (r[2] \in 1..12 /\ r[3] \in 1..DaysInMonth(r[1], r[2]))
            /\ HasChar(x, ",") => (r = None \/ x = DayText(r))
            /\ (~HasChar(x, ",") /\ HasChar(x, " ")) =>
                    (r = None \/ (r[3] = 1 /\ x = MonthText(r)))
            /\ (~HasChar(x, ",") /\ ~HasChar(x, " ")) =>
                    (r = None \/ (r[2] = 1 /\ r[3] = 1 /\ x = YearText(r)))
            /\ \A dt \in CalendarDates :
                    /\ x = DayText(dt) => r = dt
                    /\ x = MonthText(dt) => r = <<dt[1], dt[2], 1>>
                    /\ x = YearText(dt) => r = <<dt[1], 1, 1>>
            /\ x = NotADate => r = None

\* the cell "June 5, 1999", holding a comma and spaces, came out as 1999-06-05
C11_Witness ==
    /\ Converted
    /\ conv.how = "current"
    /\ conv.cell = June5_1999
    /\ conv.parsed = <<1999, 6, 5>>

\* the cell "(shorts) December 1, 1999[2]" of the former dialect
ShortsDec1_1999Note ==
    <<"(","s","h","o","r","t","s",")"," ">> \o Dec1_1999 \o <<"[","2","]">>

\* C12: for a date field of the former dialect, cutting the note suffix (from
\* the first "[") and the shorts prefix (up to the last ")") leaves exactly
\* the date text the grammar reads: "(shorts) December 1, 1999[2]" gives
\* 1999-12-01.
C12_ShortsAndNoteStripped ==
    (Converted /\ conv.how = "former") =>
        /\ conv.cell = ShortsDec1_1999Note => conv.parsed = <<1999, 12, 1>>
        /\ \A p \in ShortsPrefixes, t \in DateTexts, n \in NoteSuffixes :
                conv.cell = p \o t \o n =>
                    conv.stripped = t /\ conv.parsed = _convert_date(t)

(***************************************************************************)
(* The driver and the nodes that are no h2..h5 heading                     *)
(***************************************************************************)

\* a heading tag at a level the header tracker has no slot for
UnsupportedHeading(node) == node.name \in {"h1", "h6"}

\* C13: a heading node at an unsupported level (such as h1 or h6) is a fatal
\* error that ends the run: the loop never goes past one.
C13_UnsupportedHeadingIsFatal ==
    DriverRun =>
        /\ \A j \in 1..Len(doc) : (j < pos => ~UnsupportedHeading(doc[j]))
        /\ (pos <= Len(doc) /\ UnsupportedHeading(doc[pos])) => pc \in {"loop", "error"}

(***************************************************************************)
(* The rows a decoder lets into its table                                  *)
(***************************************************************************)

\* the decoder under study was _parse_current_shows
CurrentRun == h2(_header_vals) = CurrentProgramming /\ Len(doc) = 0 /\ pc # "header"

\* the rows _parse_current_shows loops over, and its columns
CurrentCols ==
    IF HasNotesWord(blocks[2]) THEN Append(blocks[1], ColNotes) ELSE blocks[1]

CurrentRows ==
    IF HasNotesWord(blocks[2]) THEN SubSeq(blocks, 3, Len(blocks))
                               ELSE SubSeq(blocks, 2, Len(blocks))

\* C14: in both decoders a row block gets one trailing absent cell only when
\* it is short of the header's column count by exactly one; a row whose cell
\* count differs in another way is fatal there and is never padded into the
\* table.
C14_PadOnlyWhenShortByOne ==
    /\ (FormerRun /\ pc = "rows" /\ row_i > 1 /\ dec.did \in {"plain", "combine"}) =>
            Len(Last(dec.table_vals)) = Len(cols)
    /\ (CurrentRun /\ pc = "returned") =>
            \A k \in 1..Len(CurrentRows) :
                Len(CurrentRows[k]) \in {Len(CurrentCols), Len(CurrentCols) - 1}

(***************************************************************************)
(* The SubIndex column                                                     *)
(***************************************************************************)

\* the rows with a Title among the rows a decoder made its DataFrame from
RowsWithTitle(table_vals) ==
    LET HasTitle(row) == row[1] # None
    IN  SelectSeq(table_vals, HasTitle)

\* the latest row before row j that holds titles only
RECURSIVE LatestTitleBlock(_, _)
LatestTitleBlock(rs, j) ==
    IF j <= 1 THEN << >>
    ELSE IF _count_n_dates(rs[j - 1]) = 0 THEN rs[j - 1]
    ELSE LatestTitleBlock(rs, j - 1)

\* C15: the SubIndex values of a table's records are 0, 1, ..., n-1 in the
\* order the records were emitted, n being the number of records left once the
\* rows without Title are filtered out; the records of a grouped-date cluster
\* are emitted, and so numbered, right before the row that made it flush.
C15_SubIndexIsPositionAfterFilter ==
    /\ (Len(doc) = 0 /\ pc = "returned") =>
            \A i \in 1..Len(table_df.df) : table_df.df[i].SubIndex = i - 1
    /\ (CurrentRun /\ pc = "returned") =>
            /\ Len(table_df.df) = Len(CurrentRows)
            /\ \A i \in 1..Len(table_df.df) :
                    table_df.df[i].Title = _remove_notes(CurrentRows[i][1], FALSE)
    /\ FormerReturned =>
            LET emitted == RowsWithTitle(dec.table_vals)
            IN  /\ Len(table_df.df) = Len(emitted)
                /\ \A i \in 1..Len(emitted) :
                        table_df.df[i].Title = _remove_notes(emitted[i][1], FALSE)
    /\ (FormerRun /\ pc = "rows" /\ row_i > 1 /\ dec.did = "combine") =>
            LET tv == dec.table_vals
            IN  /\ Len(tv) >= 2
                /\ Last(tv)[1] = TakenRow[1]
                /\ tv[Len(tv) - 1][1] = Last(LatestTitleBlock(rows, row_i - 1))
                /\ tv[Len(tv) - 1][4] = None

\* a cluster of two titles, flushed by the row of ShowC: three records, 0 to 2
C15_Witness ==
    /\ FormerReturned
    /\ blocks = <<HdrFormer, <<ShowA, ShowB>>, <<Jan1_1990, Dec31_1990>>, <<ShowC, Y1985, Y1990>> >>
    /\ Column(table_df.df, "SubIndex") = <<0, 1, 2>>
    /\ Column(table_df.df, "Title") = <<ShowA, ShowB, ShowC>>

(***************************************************************************)
(* What a node of the document does to the header state                    *)
(***************************************************************************)

\* C16: a heading at level L changes the value at L and no value shallower
\* than L, and leaves the reported depth at L's index plus 2; a table node or
\* any node that is no h2..h5 heading leaves the whole header state unchanged.
C16_ObserveChangesOnlyLevelAndDeeper ==
    [][AtNode =>
          IF doc[pos].name \in HeaderNames
          THEN LET L == Level(doc[pos].name)
               IN  /\ \A k \in 1..L : _header_vals'[k] = _header_vals[k]
                   /\ _header_vals'[L + 1] = doc[pos].body
                   /\ depth(_header_index') = L + 2
          ELSE UNCHANGED header]_vars

\* an H4 observed under an H2 and an H3, then a table: both are kept, depth 4
C16_Witness ==
    /\ DriverRun
    /\ pos = 5
    /\ doc[1] = Node("h2", CurrentProgramming)
    /\ doc[2] = Node("h3", Animated)
    /\ doc[3] = Node("h4", Animated)
    /\ doc[4].name = "table"
    /\ _header_vals = <<CurrentProgramming, Animated, Animated, None>>
    /\ depth(_header_index) = 4

(***************************************************************************)
(* The columns a dialect leaves blank                                      *)
(***************************************************************************)

\* C17: in every record, H2 = "Current programming" implies FinaleDate is
\* absent, also when the table has a finale date column, and H2 = "Former
\* programming" implies NumberSeasons is absent, also when the table has a
\* seasons column.
C17_DialectBlankColumns ==
    (Len(doc) = 0 /\ pc = "returned") =>
        \A i \in 1..Len(table_df.df) :
            /\ table_df.df[i].H2 = CurrentProgramming => table_df.df[i].FinaleDate = None
            /\ table_df.df[i].H2 = FormerProgramming => table_df.df[i].NumberSeasons = None

\* a current programming table with a Finale date column whose row holds "3"
\* there, and its record
C17_Witness ==
    /\ CurrentRun /\ pc = "returned"
    /\ blocks = <<HdrFormer, <<ShowA, June5_1999, Three, Remark>> >>
    /\ Len(table_df.df) = 1
    /\ table_df.df[1].H2 = CurrentProgramming
    /\ table_df.df[1].FinaleDate = None

(***************************************************************************)
(* The flush of a grouped-date cluster                                     *)
(***************************************************************************)

Max(a, b) == IF a >= b THEN a ELSE b

Min(a, b) == IF a <= b THEN a ELSE b

\* the loop takes a row on the path that pairs the pending titles and dates
FlushStep == pc = "rows" /\ pc' = "rows" /\ row_i' = row_i + 1 /\ dec'.did = "combine"

\* C18: a flush with T >= 1 pending titles and D >= 1 pending date pairs ends
\* after exactly max(T, D) records, the i-th (from 0) pairing title
\* min(i, T-1) with date pair min(i, D-1); the row that triggered it follows.
C18_FlushEmitsMaxOfBoth ==
    [][FlushStep =>
          LET titles == dec.repeat_title_stack
              dates  == dec.repeat_date_stack
              T      == Len(titles)
              D      == Len(dates)
              before == Len(dec.table_vals)
          IN  /\ T >= 1 /\ D >= 1
              /\ Len(dec'.table_vals) = before + Max(T, D) + 1
              /\ SubSeq(dec'.table_vals, 1, before) = dec.table_vals
              /\ \A i \in 0..(Max(T, D) - 1) :
                    dec'.table_vals[before + i + 1] =
                        <<titles[Min(i, T - 1) + 1],
                          dates[Min(i, D - 1) + 1][1],
                          dates[Min(i, D - 1) + 1][2],
                          None>>
              /\ Last(dec'.table_vals)[1] = rows[row_i][1]]_vars

\* two pending titles and one pending date pair: two records, the pair reused
C18_Witness ==
    /\ FormerRun /\ pc = "rows" /\ dec.did = "combine"
    /\ blocks = <<HdrFormer, <<ShowA, ShowB>>, <<Jan1_1990, Dec31_1990>>, <<ShowC, Y1985, Y1990>> >>
    /\ row_i = 4
    /\ dec.table_vals = << <<ShowA, Jan1_1990, Dec31_1990, None>>,
                           <<ShowB, Jan1_1990, Dec31_1990, None>>,
                           <<ShowC, Y1985, Y1990, None>> >>

(***************************************************************************)
(* The last-known premiere date and the stacks across clusters             *)
(***************************************************************************)

\* a row that starts with a title and holds two date tokens
OrdinaryRow(row) == _count_n_dates(row) = 2 /\ _is_date(row[1]) = "False"

\* the PremiereDate cell of the latest ordinary row before row j, the empty
\* text when there is none
RECURSIVE LastOrdinaryPremiere(_, _)
LastOrdinaryPremiere(rs, j) ==
    IF j <= 1 THEN << >>
    ELSE IF OrdinaryRow(rs[j - 1]) THEN rs[j - 1][2]
    ELSE LastOrdinaryPremiere(rs, j - 1)

\* C19: all through a former programming table the last-known PremiereDate is
\* the PremiereDate cell of the latest ordinary row (title, premiere, finale);
\* a date-only row block never changes it, so a later row with one date token
\* never takes a cluster's FinaleDate for its PremiereDate.
C19_DateOnlyBlockKeepsLastKnown ==
    /\ (FormerRun /\ pc = "rows" /\ dec.did \notin FormerErrors) =>
            dec.prev_premiere_date = LastOrdinaryPremiere(rows, row_i)
    /\ (FormerRun /\ pc = "rows" /\ row_i > 1 /\ dec.did \in {"plain", "combine"}
        /\ OneDateTitleRow(TakenRow)) =>
            Last(dec.table_vals)[2] = LastOrdinaryPremiere(rows, row_i - 1)

\* the rows before row j that start with a date and come after the latest row
\* of titles only, in order: the date pairs supplied to the pending cluster
RECURSIVE DatePairsSinceTitles(_, _)
DatePairsSinceTitles(rs, j) ==
    IF j <= 1 THEN << >>
    ELSE IF _count_n_dates(rs[j - 1]) = 0 THEN << >>
    ELSE IF _is_date(rs[j - 1][1]) = "True"
         THEN Append(DatePairsSinceTitles(rs, j - 1), rs[j - 1])
    ELSE DatePairsSinceTitles(rs, j - 1)

\* C20: after the flush of a cluster both pending stacks are empty, so the
\* date pairs pending for a cluster are those supplied after its title block:
\* nothing left over from before appears in a later cluster's records.
C20_StacksEmptyAfterFlush ==
    /\ (FormerRun /\ pc = "rows" /\ dec.did = "combine") =>
            /\ Len(dec.repeat_title_stack) = 0
            /\ Len(dec.repeat_date_stack) = 0
    /\ (FormerRun /\ pc = "rows" /\ dec.are_combining_dates) =>
            dec.repeat_date_stack = DatePairsSinceTitles(rows, row_i)

(***************************************************************************)
(* The start of a flush                                                    *)
(***************************************************************************)

\* the next row starts a flush: combining mode is on and the row starts with
\* a title and holds one or two date tokens
FlushStarts ==
    /\ FormerRun /\ pc = "rows" /\ row_i <= Len(rows)
    /\ dec.are_combining_dates
    /\ _count_n_dates(rows[row_i]) \in {1, 2}
    /\ _is_date(rows[row_i][1]) = "False"

\* C21: whenever a flush starts, the pending title stack and the pending date
\* stack are both non-empty: a title-only block followed directly by an
\* ordinary dated row does not make the decoder read an empty date stack.
C21_FlushStartsWithBothStacks ==
    /\ FlushStarts =>
            /\ Len(dec.repeat_title_stack) > 0
            /\ Len(dec.repeat_date_stack) > 0
    /\ (FormerRun /\ pc = "raised" /\ Len(blocks) > 0 /\ row_i <= Len(rows)
        /\ _count_n_dates(rows[row_i]) \in {1, 2}) =>
            dec.did # "IndexError"

(***************************************************************************)
(* The date-shaped-token test                                              *)
(***************************************************************************)

\* C22: the date-shaped-token test is total: for every cell it answers true
\* or false and raises nothing, also for a cell such as "Abc, Defg" (one
\* comma, five characters after it, no space before it), so counting the date
\* tokens of a row never aborts the decoding.
C22_IsDateIsTotal ==
    pc = "tested" =>
        /\ conv.is_date \in {"True", "False"}
        /\ conv.n_dates \in {0, 1}

====
